---- MODULE Spec2Model ----
(***************************************************************************)
(* Model of src/module/mm-util/db_abstractions.ts: the NuWrapper entity    *)
(* collection wrapper (descriptor -> collection resolution -> CRUD         *)
(* dispatch) and the document blob builder as_document_blob.               *)
(*                                                                         *)
(* The host platform (game.packs, game.actors, game.items, game.scenes and *)
(* the bulk document calls) is modelled at the boundary spec.md section 6  *)
(* describes.  Bulk create/update/delete are asynchronous host calls that  *)
(* return a promise: the request is queued when the wrapper issues it and  *)
(* takes effect when the host commits it.  update and destroy return that  *)
(* promise; create_many uses the returned value without awaiting it.       *)
(***************************************************************************)
EXTENDS Integers, Sequences, FiniteSets, TLC

\* ---------------------------------------------------------------- bounds
MaxCalls == 2      \* wrapper operations in flight at once
MaxOps == 2        \* wrapper operations called over a run

\* ------------------------------------------------------------ data model
Null == "null"

EntryTypes == {"pilot", "frame"}

\* ../actor/lancer-actor is_actor_type: the actor-like kinds
is_actor_type(entry_type) == entry_type = "pilot"

\* ./helpers get_pack_id: the core pack that holds an entry type
get_pack_id(entry_type) == "world." \o entry_type

\* RegEntryTypes<T>: the raw persisted fields of an entry
NoData == [name |-> "", tag |-> ""]

\* A host document: fi.data._id, fi.type, fi.name, fi.data.data
Doc(id, type, name, data) == [_id |-> id, type |-> type, name |-> name, data |-> data]

\* ------------------------------------------------- collection references
\* What lookup_collection hands back: game.actors, game.items, a pack
\* collection, an actor's embedded item collection, or undefined.
Undefined == [kind |-> "undefined", pack |-> Null, owner |-> Null]
game_actors == [kind |-> "actors", pack |-> Null, owner |-> Null]
game_items == [kind |-> "items", pack |-> Null, owner |-> Null]
PackCollection(comp_id) == [kind |-> "pack", pack |-> comp_id, owner |-> Null]
actor_items(comp_id, actor_id) == [kind |-> "embedded", pack |-> comp_id, owner |-> actor_id]

\* The ids descriptors name.  The first of each pair exists in the host at the
\* start; the second never does.
CustomPack == "pk"
MissingPack == "nopack"
ActorId == "a1"
MissingActor == "a0"
SceneId == "s1"
MissingScene == "s0"
TokenId == "t1"         \* a token of SceneId whose actor is ActorId
OrphanToken == "t2"     \* a token of SceneId whose actor was deleted
MissingToken == "t0"
ItemId == "i1"

Collections ==
  {game_actors, game_items, actor_items(Null, ActorId), actor_items(CustomPack, ActorId),
   PackCollection(CustomPack), PackCollection(get_pack_id("frame"))}

\* collection.parent: the owning actor of an embedded collection, if any
NoParent == [id |-> Null, pack |-> Null]
parent_of(collection) ==
  IF collection.kind = "embedded"
    THEN [id |-> collection.owner, pack |-> collection.pack]
    ELSE NoParent

\* collection.documentClass: Actor for game.actors and for the custom pack
\* (a pack of actors), Item for every collection of items
documentClass(collection) ==
  IF collection.kind = "actors" \/ collection = PackCollection(CustomPack)
    THEN "Actor"
    ELSE "Item"

\* --------------------------------------------------------------- errors
NoError == [error |-> "none", what |-> ""]
NotFound(what) == [error |-> "NotFound", what |-> what]
BrokenReference(what) == [error |-> "BrokenReference", what |-> what]
TypeError(what) == [error |-> "TypeError", what |-> what]

\* A settled promise
Fulfilled(v) == [state |-> "fulfilled", value |-> v, reason |-> NoError]
Rejected(e) == [state |-> "rejected", value |-> Undefined, reason |-> e]
NoPromise == [state |-> "none", value |-> Undefined, reason |-> NoError]
Pending == [state |-> "pending", value |-> Undefined, reason |-> NoError]

VARIABLES
  game,      \* the host: packs, scenes, tokens and the contents of every collection
  host,      \* bulk requests issued to the host and not yet committed
  issued,    \* operations called on the wrapper so far (bounded by MaxOps)
  ctor,      \* "none" | "ok" | "threw": outcome of new NuWrapper(type, cfg)
  wrapper,   \* the NuWrapper: entry_type, cfg, pack, scene, collection (a promise)
  lookups,   \* invocations of NuWrapper.lookup_collection
  fetch,     \* promise of actor_pack.getDocument(...).then(...) in lookup_collection
  reached,   \* host calls the wrapper's operations have made
  calls,     \* the operations in flight, by slot
  ent,       \* blob builder: the LiveEntry handed to as_document_blob
  blob       \* blob builder: the record as_document_blob returned, and the entry after

vars == <<game, host, issued, ctor, wrapper, lookups, fetch, reached, calls, ent, blob>>

\* ------------------------------------------------------- host registries
\* game.packs.get(id)
game_packs_get(comp_id) == IF comp_id \in game.packs THEN PackCollection(comp_id) ELSE Undefined

ById(docs, id) == {d \in docs : d._id = id}

\* collection.get(id) / pack.getDocument(id): the document or undefined
NoDoc == Doc(Null, Null, "", NoData)
collection_get(collection, id) ==
  IF ById(game.db[collection], id) = {} THEN NoDoc
  ELSE CHOOSE d \in ById(game.db[collection], id) : TRUE

\* game.scenes.get(id)
game_scenes_get(scene_id) == IF scene_id \in game.scenes THEN scene_id ELSE Null

\* scene.tokens.get(id)
scene_tokens_get(scene, token_id) ==
  IF token_id \in DOMAIN game.tokens THEN token_id ELSE Null

\* token.actor: the actor the token is linked to, null once that actor is
\* deleted; its items are that world actor's embedded items
token_actor(token) ==
  IF ById(game.db[game_actors], game.tokens[token]) # {} THEN game.tokens[token] ELSE Null

\* ------------------------------------------------------ source descriptor
\* FoundryRegNameParsed: src and the ids that variant carries
Cfg(src, comp_id, actor_id, scene_id, token_id) ==
  [src |-> src, comp_id |-> comp_id, actor_id |-> actor_id,
   scene_id |-> scene_id, token_id |-> token_id]

Cfgs ==
  {Cfg("comp_actor", p, Null, Null, a) :
     <<p, a>> \in {<<CustomPack, ActorId>>, <<CustomPack, MissingActor>>, <<MissingPack, ActorId>>}}
  \cup {Cfg("game_actor", Null, a, Null, Null) : a \in {ActorId, MissingActor}}
  \cup {Cfg("scene_token", Null, Null, s, t) :
     <<s, t>> \in {<<SceneId, TokenId>>, <<SceneId, OrphanToken>>,
                   <<SceneId, MissingToken>>, <<MissingScene, TokenId>>}}
  \cup {Cfg("comp", p, Null, Null, Null) : p \in {CustomPack, MissingPack}}
  \cup {Cfg("comp_core", Null, Null, Null, Null), Cfg("game", Null, Null, Null, Null)}
  \cup {Cfg("scene", Null, Null, s, Null) : s \in {SceneId, MissingScene}}

\* The (type, cfg) pairs wrappers are built from: every descriptor for an item
\* kind, and for an actor kind those whose resolution looks at the kind or
\* lands on a collection of actors
Wrappers ==
  {<<"frame", cfg>> : cfg \in Cfgs}
    \cup {<<"pilot", cfg>> : cfg \in {c \in Cfgs : c.src \in {"comp_core", "game", "scene"}}}

\* ------------------------------------------------- lookup_collection
\* A scene_token branch that hands out token.actor.items without testing
\* token.actor
lookup_scene_token_unchecked(cfg) ==
  IF game_scenes_get(cfg.scene_id) = Null
    THEN Rejected(NotFound("scene"))
  ELSE IF scene_tokens_get(cfg.scene_id, cfg.token_id) = Null
    THEN Rejected(NotFound("token"))
    ELSE Fulfilled(actor_items(Null, game.tokens[cfg.token_id]))

\* lookup_collection, lines 140-160: the scene_token branch
lookup_scene_token(cfg) ==
  IF game_scenes_get(cfg.scene_id) = Null
    THEN Rejected(NotFound("scene"))
  ELSE IF scene_tokens_get(cfg.scene_id, cfg.token_id) = Null
    THEN Rejected(NotFound("token"))
  ELSE IF token_actor(cfg.token_id) = Null
    THEN Rejected(BrokenReference("token actor"))
    ELSE Fulfilled(actor_items(Null, token_actor(cfg.token_id)))

\* The promise the async function returns.  No branch awaits, so the promise
\* is settled when the call returns.
lookup_collection(entry_type, cfg) ==
  IF cfg.src = "comp_actor" THEN
    IF game_packs_get(cfg.comp_id) = Undefined
      THEN Rejected(NotFound("pack"))
      \* getDocument(...).then(...) is neither awaited nor returned
      ELSE Fulfilled(Undefined)
  ELSE IF cfg.src = "game_actor" THEN
    IF collection_get(game_actors, cfg.actor_id) = NoDoc
      THEN Rejected(NotFound("actor"))
      ELSE Fulfilled(actor_items(Null, cfg.actor_id))
  ELSE IF cfg.src = "scene_token" THEN
    lookup_scene_token(cfg)
  ELSE IF cfg.src = "comp" THEN
    IF game_packs_get(cfg.comp_id) = Undefined
      THEN Rejected(NotFound("pack"))
      ELSE Fulfilled(Undefined)       \* no return statement
  ELSE IF cfg.src = "comp_core" THEN
    IF game_packs_get(get_pack_id(entry_type)) = Undefined
      THEN Rejected(NotFound("core pack"))
      ELSE Fulfilled(Undefined)       \* no return statement
  ELSE IF cfg.src = "game" THEN
    IF is_actor_type(entry_type) THEN Fulfilled(game_actors) ELSE Fulfilled(game_items)
  ELSE \* cfg.src = "scene"
    Fulfilled(game_actors)

\* The detached chain started in the comp_actor branch
lookup_starts_fetch(cfg) ==
  cfg.src = "comp_actor" /\ game_packs_get(cfg.comp_id) # Undefined

\* The .then callback of the comp_actor branch, run when getDocument settles
fetch_then(cfg) ==
  IF collection_get(PackCollection(cfg.comp_id), cfg.token_id) = NoDoc
    THEN Rejected(NotFound("pack actor"))
    ELSE Fulfilled(actor_items(cfg.comp_id, cfg.token_id))

\* ------------------------------------------------------- NuWrapper fields
\* A constructor that leaves the pack id out of a comp_actor wrapper
ctor_pack_no_actor(type, cfg) ==
  IF cfg.src = "comp" THEN cfg.comp_id
  ELSE IF cfg.src = "comp_core" THEN get_pack_id(type)
  ELSE Null

\* constructor: this.pack
ctor_pack(type, cfg) ==
  IF cfg.src = "comp" \/ cfg.src = "comp_actor" THEN cfg.comp_id
  ELSE IF cfg.src = "comp_core" THEN get_pack_id(type)
  ELSE Null

\* A constructor that never records the scene
ctor_scene_unset(cfg) == Null

\* constructor: this.scene (null for every src but "scene")
ctor_scene(cfg) == IF cfg.src = "scene" THEN game_scenes_get(cfg.scene_id) ELSE Null

\* constructor: throws on a "scene" descriptor whose scene is absent
ctor_throws(cfg) == cfg.src = "scene" /\ game_scenes_get(cfg.scene_id) = Null

NoCfg == Cfg(Null, Null, Null, Null, Null)
NoWrapper == [entry_type |-> Null, cfg |-> NoCfg, pack |-> Null, scene |-> Null,
              collection |-> NoPromise]

\* non_scene_opts: the DocumentModificationContext, once this.collection resolved
non_scene_opts(collection) ==
  IF parent_of(collection) # NoParent
    THEN [parent |-> parent_of(collection), pack |-> wrapper.pack]
    ELSE [parent |-> NoParent, pack |-> wrapper.pack]

\* ----------------------------------------------------------- blob builder
Names == {"X", "Y", "Z"}

\* LiveEntryTypes<T> with its FoundryFlagData
LiveEntry(id, name, tag, top, orig) ==
  [RegistryID |-> id, Name |-> name, tag |-> tag,
   Flags |-> [top_level_data |-> [name |-> top], orig_doc_name |-> orig]]

\* JavaScript truthiness of a string (an absent name is modelled as "")
Truthy(str) == str # ""

\* ent.save(): the entry's serialized own fields
save(e) == [name |-> e.Name, tag |-> e.tag]

\* mergeObject(original, other): other's keys laid over original's
mergeObject(original, other) ==
  [k \in DOMAIN original \cup DOMAIN other |->
     IF k \in DOMAIN other THEN other[k] ELSE original[k]]

\* A reconciliation that lets a changed entry name beat a changed top-level name
reconcile_name_entry_first(e) ==
  IF Truthy(e.Name) /\ e.Name # e.Flags.orig_doc_name
    THEN e
  ELSE IF Truthy(e.Flags.top_level_data.name)
          /\ e.Flags.top_level_data.name # e.Flags.orig_doc_name
    THEN [e EXCEPT !.Name = e.Flags.top_level_data.name]
  ELSE e

\* as_document_blob, lines 37-44: the entry as the name reconciliation leaves it
reconcile_name(e) ==
  IF Truthy(e.Flags.top_level_data.name)
       /\ e.Flags.top_level_data.name # e.Flags.orig_doc_name
    THEN [e EXCEPT !.Name = e.Flags.top_level_data.name]
  ELSE IF Truthy(e.Name) /\ e.Name # e.Flags.orig_doc_name
    THEN e      \* `flags.top_level_data.name;` is an expression statement: no write
  ELSE e

\* as_document_blob: the record handed to updateDocuments
as_document_blob(e) ==
  mergeObject([_id |-> reconcile_name(e).RegistryID, data |-> save(reconcile_name(e))],
              reconcile_name(e).Flags.top_level_data)

\* ------------------------------------------------------------ host calls
\* Where a bulk call of documentClass `cls` under context `opts` lands
HostTarget(cls, opts) ==
  IF opts.parent # NoParent THEN actor_items(opts.parent.pack, opts.parent.id)
  ELSE IF opts.pack # Null THEN PackCollection(opts.pack)
  ELSE IF cls = "Actor" THEN game_actors
  ELSE game_items

NewId(k) == "doc" \o ToString(k)

\* createDocuments: one new document per record, ids assigned by the host
HostCreate(data, first) ==
  {Doc(NewId(first + i), data[i].type, data[i].name, data[i].data) : i \in 1..Len(data)}

RECURSIVE HostUpdateDoc(_, _)
\* updateDocuments on one document: every blob carrying its id is merged in order
HostUpdateDoc(d, data) ==
  IF data = <<>> THEN d
  ELSE HostUpdateDoc(
         IF Head(data)._id = d._id
           THEN [d EXCEPT !.name = IF Truthy(Head(data).name) THEN Head(data).name ELSE @,
                          !.data = Head(data).data]
           ELSE d,
         Tail(data))

SeqRange(seq) == {seq[i] : i \in 1..Len(seq)}

\* The host's state after it commits request r
HostApply(r) ==
  LET t == HostTarget(r.cls, r.opts) IN
  IF r.verb = "create" THEN
    [game EXCEPT !.db[t] = @ \cup HostCreate(r.data, game.created),
                 !.created = @ + Len(r.data)]
  ELSE IF r.verb = "update" THEN
    [game EXCEPT !.db[t] = {HostUpdateDoc(d, r.data) : d \in @}]
  ELSE \* "delete": the documents go, and with an actor its embedded items
    [game EXCEPT !.db = [c \in DOMAIN @ |->
       IF c = t THEN {d \in @[c] : d._id \notin SeqRange(r.data)}
       ELSE IF c.kind = "embedded" /\ c.owner \in SeqRange(r.data)
               /\ t.kind \in {"actors", "pack"} /\ c.pack = t.pack THEN {}
       ELSE @[c]]]

\* ------------------------------------------------------------- GetResult
GetResult(id, type, doc) == [id |-> id, type |-> type, data |-> doc.data, entity |-> doc]
NullResult == [id |-> Null, type |-> Null, data |-> NoData, entity |-> NoDoc]

\* get, lines 286-296: the found document checked against entry_type
get_result(fi, id) ==
  IF fi # NoDoc /\ fi.type = wrapper.entry_type
    THEN GetResult(id, wrapper.entry_type, fi)
    ELSE NullResult

\* A filter that keeps a document as soon as one criterion matches
Matches_some(doc, query_obj) == \E kv \in query_obj : doc.data[kv[1]] = kv[2]

\* Query criteria: the set of <<key, value>> pairs of query_obj
Matches(doc, query_obj) == \A kv \in query_obj : doc.data[kv[1]] = kv[2]

\* pack.getDocuments(query): the host's filtered fetch, kind restriction included
getDocuments(collection, query_obj, type) ==
  {d \in game.db[collection] : d.type = type /\ Matches(d, query_obj)}

\* A filter that leaves out the kind test
query_filter_any_kind(collection, query_obj) ==
  {d \in game.db[collection] : Matches(d, query_obj)}

\* query, lines 310-325: contents filtered by kind, then by every criterion
query_filter(collection, query_obj) ==
  {d \in game.db[collection] : d.type = wrapper.entry_type /\ Matches(d, query_obj)}

\* query, lines 330-335: the documents mapped to GetResults
query_results(all) == {GetResult(d._id, wrapper.entry_type, d) : d \in all}

\* ----------------------------------------------------------- the inputs
R1 == [name |-> "X", tag |-> "a"]
R2 == [name |-> "Y", tag |-> "b"]

\* reg_data lists handed to create_many
CreateBatches == {<<R1>>, <<R2, R1>>}

Ids == {ActorId, NewId(1)}

Queries == {{<<"name", "X">>}, {<<"name", "Y">>, <<"tag", "b">>}}

\* Entries loaded from documents and then edited: the first had its own name
\* changed, the second its document's top-level name
E1 == LiveEntry(ItemId, "Z", "b", "Y", "Y")
E2 == LiveEntry(NewId(1), "X", "a", "Z", "X")

\* items lists handed to update
UpdBatches == {<<E1>>, <<E2, E1>>}

LiveEntries ==
  {LiveEntry(ItemId, n, t, top, orig) :
     n \in Names \cup {""}, t \in {"a", "b"}, top \in Names \cup {""}, orig \in Names}

NoEnt == LiveEntry(Null, "", "", "", "")
NoBlob == [record |-> [_id |-> Null, data |-> NoData, name |-> ""], after |-> NoEnt]

\* ------------------------------------------------------ calls in flight
Slots == 1..MaxCalls
Idle == [op |-> "idle", arg |-> <<>>, pc |-> "idle", out |-> NoPromise]
Call(op, arg, pc, out) == [op |-> op, arg |-> arg, pc |-> pc, out |-> out]

\* The slot a new call takes: the lowest one with no call in flight
InFlight(s) == calls[s].pc \notin {"idle", "done"}
FreeSlot(s) == ~InFlight(s) /\ \A r \in 1..(s - 1) : InFlight(r)

settle(s, out) == calls' = [calls EXCEPT ![s].pc = "done", ![s].out = out]

\* ----------------------------------------------------------------- Init
InitGame ==
  [packs |-> {CustomPack, get_pack_id("frame")},
   scenes |-> {SceneId},
   tokens |-> (TokenId :> ActorId) @@ (OrphanToken :> MissingActor),
   created |-> 0,
   db |-> [c \in Collections |->
     IF c = game_actors \/ c = PackCollection(CustomPack)
       THEN {Doc(ActorId, "pilot", "X", [name |-> "X", tag |-> "a"])}
     ELSE IF c = actor_items(CustomPack, ActorId) THEN {}
     ELSE {Doc(ItemId, "frame", "Y", [name |-> "Y", tag |-> "b"])}]]

InitWrapper ==
  /\ game = InitGame
  /\ host = <<>>
  /\ issued = 0
  /\ ctor = "none"
  /\ wrapper = NoWrapper
  /\ lookups = 0
  /\ fetch = NoPromise
  /\ reached = {}
  /\ calls = [s \in Slots |-> Idle]

Init == InitWrapper /\ ent = NoEnt /\ blob = NoBlob

\* ---------------------------------------------------------- constructor
\* An await that resolves the descriptor again instead of reading the promise
await_relookup ==
  /\ lookups' = lookups + 1
  /\ wrapper' = [wrapper EXCEPT
                   !.collection = lookup_collection(wrapper.entry_type, wrapper.cfg)]

\* `await this.collection`: every operation reads the promise the constructor
\* stored; nothing is resolved again
await_this_collection == lookups' = lookups /\ wrapper' = wrapper

\* new NuWrapper(type, cfg)
Construct(type, cfg) ==
  /\ ctor = "none"
  /\ IF ctor_throws(cfg)
       THEN /\ ctor' = "threw"
            /\ UNCHANGED <<wrapper, lookups, fetch>>
       ELSE /\ ctor' = "ok"
            /\ wrapper' = [entry_type |-> type, cfg |-> cfg, pack |-> ctor_pack(type, cfg),
                           scene |-> ctor_scene(cfg),
                           collection |-> lookup_collection(type, cfg)]
            /\ lookups' = lookups + 1
            /\ fetch' = IF lookup_starts_fetch(cfg) THEN Pending ELSE NoPromise
  /\ UNCHANGED <<game, host, issued, reached, calls, ent, blob>>

\* The pack's getDocument settles and the detached .then callback runs
ActorFetchSettles ==
  /\ fetch = Pending
  /\ fetch' = fetch_then(wrapper.cfg)
  /\ UNCHANGED <<game, host, issued, ctor, wrapper, lookups, reached, calls, ent, blob>>

\* ------------------------------------------------- operations: the call
\* A call is taken while the wrapper exists, a slot is free and the run's
\* budget of calls lasts
CanCall(s) == ctor = "ok" /\ FreeSlot(s) /\ issued < MaxOps

\* An operation that has run up to its first `await this.collection`
Started(op, arg) == Call(op, arg, "await_collection", Pending)

create_many(s, reg_data) ==
  /\ CanCall(s)
  /\ issued' = issued + 1
  /\ IF wrapper.scene # Null
       THEN \* console.error(...); return []
            calls' = [calls EXCEPT ![s] = Call("create_many", reg_data, "done", Fulfilled(<<>>))]
       ELSE calls' = [calls EXCEPT ![s] = Started("create_many", reg_data)]
  /\ UNCHANGED <<game, host, ctor, wrapper, lookups, fetch, reached, ent, blob>>

update(s, items) ==
  /\ CanCall(s)
  /\ issued' = issued + 1
  /\ calls' = [calls EXCEPT ![s] = Started("update", items)]
  /\ UNCHANGED <<game, host, ctor, wrapper, lookups, fetch, reached, ent, blob>>

destroy(s, id) ==
  /\ CanCall(s)
  /\ issued' = issued + 1
  /\ calls' = [calls EXCEPT ![s] = Started("destroy", id)]
  /\ UNCHANGED <<game, host, ctor, wrapper, lookups, fetch, reached, ent, blob>>

get(s, id) ==
  /\ CanCall(s)
  /\ issued' = issued + 1
  /\ calls' = [calls EXCEPT ![s] = Started("get", id)]
  /\ UNCHANGED <<game, host, ctor, wrapper, lookups, fetch, reached, ent, blob>>

query(s, query_obj) ==
  /\ CanCall(s)
  /\ issued' = issued + 1
  /\ calls' = [calls EXCEPT ![s] = Started("query", query_obj)]
  /\ UNCHANGED <<game, host, ctor, wrapper, lookups, fetch, reached, ent, blob>>

\* enumerate(): this.query({})
enumerate(s) ==
  /\ CanCall(s)
  /\ issued' = issued + 1
  /\ calls' = [calls EXCEPT ![s] = Started("enumerate", {})]
  /\ UNCHANGED <<game, host, ctor, wrapper, lookups, fetch, reached, ent, blob>>

\* ------------------------------------- operations: after this.collection
\* A get that picks its path by the shape of the handle, a compendium
\* collection or not, instead of by the wrapper's pack id
get_finish_by_shape(collection, id) ==
  IF collection.kind = "pack"
    THEN Fulfilled(get_result(collection_get(collection, id), id))
  ELSE IF collection = Undefined
    THEN Rejected(TypeError("get of undefined"))
    ELSE Fulfilled(get_result(collection_get(collection, id), id))

\* get, lines 275-297, once the await of this.collection has its value.  The
\* pack path's `await collection.getDocument(id)` is read-only and is taken in
\* the same step.
get_finish(collection, id) ==
  IF wrapper.pack # Null
    THEN \* fi = await collection.getDocument(id)
         IF collection = Undefined
           THEN Rejected(TypeError("getDocument of undefined"))
           ELSE Fulfilled(get_result(collection_get(collection, id), id))
    ELSE \* fi = collection.get(id)
         IF collection = Undefined
           THEN Rejected(TypeError("get of undefined"))
           ELSE Fulfilled(get_result(collection_get(collection, id), id))

\* query, lines 302-335, once the await of this.collection has its value.  The
\* pack path's `await collection.getDocuments(...)` is read-only and is taken
\* in the same step.
query_finish(collection, query_obj) ==
  IF wrapper.pack # Null
    THEN \* all = await collection.getDocuments({...query_obj, type})
         IF collection = Undefined
           THEN Rejected(TypeError("getDocuments of undefined"))
           ELSE Fulfilled(query_results(getDocuments(collection, query_obj,
                                                     wrapper.entry_type)))
    ELSE \* all = collection.contents, filtered
         IF collection = Undefined
           THEN Rejected(TypeError("contents of undefined"))
           ELSE Fulfilled(query_results(query_filter(collection, query_obj)))

\* The host call a read makes on a defined collection
read_call(op) ==
  IF op = "get" THEN (IF wrapper.pack # Null THEN "getDocument" ELSE "get")
  ELSE (IF wrapper.pack # Null THEN "getDocuments" ELSE "contents")

\* An operation that catches the rejection and reports "nothing there"
on_rejected_swallow(c, p) ==
  [c EXCEPT !.pc = "done",
            !.out = IF c.op = "get" THEN Fulfilled(NullResult) ELSE Fulfilled(<<>>)]

\* `await this.collection` on a rejected promise throws into the operation,
\* which rejects with the promise's reason
on_rejected(c, p) == [c EXCEPT !.pc = "done", !.out = Rejected(p.reason)]

\* The operation carries on with the value of this.collection
on_fulfilled(c, p) ==
  IF c.op \in {"create_many", "update", "destroy"}
    THEN IF p.value = Undefined
           \* (await this.collection).documentClass
           THEN [c EXCEPT !.pc = "done", !.out = Rejected(TypeError("documentClass of undefined"))]
           ELSE [c EXCEPT !.pc = "await_opts"]
  ELSE IF c.op = "get"
    THEN [c EXCEPT !.pc = "done", !.out = get_finish(p.value, c.arg)]
    ELSE [c EXCEPT !.pc = "done", !.out = query_finish(p.value, c.arg)]

\* A resumption whose query filters the collection's contents in place,
\* dropping the documents of other kinds from the collection itself
AwaitCollection_pruning(s) ==
  /\ calls[s].pc = "await_collection"
  /\ await_this_collection
  /\ LET c == calls[s]
         p == wrapper.collection
         reads == p.state = "fulfilled" /\ p.value # Undefined
                    /\ c.op \in {"get", "query", "enumerate"}
     IN /\ calls' = [calls EXCEPT ![s] = IF p.state = "rejected" THEN on_rejected(c, p)
                                                                ELSE on_fulfilled(c, p)]
        /\ reached' = IF reads THEN reached \cup {read_call(c.op)} ELSE reached
        /\ game' = IF reads /\ c.op # "get"
                     THEN [game EXCEPT !.db[p.value] =
                             {d \in @ : d.type = wrapper.entry_type}]
                     ELSE game
  /\ UNCHANGED <<host, issued, ctor, fetch, ent, blob>>

\* The first `await this.collection` of the call in slot s resumes
AwaitCollection(s) ==
  /\ calls[s].pc = "await_collection"
  /\ await_this_collection
  /\ LET c == calls[s]
         p == wrapper.collection
     IN /\ calls' = [calls EXCEPT ![s] = IF p.state = "rejected" THEN on_rejected(c, p)
                                                                ELSE on_fulfilled(c, p)]
        /\ reached' = IF p.state = "fulfilled" /\ p.value # Undefined
                         /\ c.op \in {"get", "query", "enumerate"}
                        THEN reached \cup {read_call(c.op)}
                        ELSE reached
  /\ UNCHANGED <<game, host, issued, ctor, fetch, ent, blob>>

\* The records create_many hands to createDocuments
create_data(reg_data) ==
  [i \in 1..Len(reg_data) |->
     [type |-> wrapper.entry_type, name |-> reg_data[i].name, data |-> reg_data[i]]]

\* A bulk request as the host receives it
Request(verb, collection, data, waiter) ==
  [verb |-> verb, cls |-> documentClass(collection), data |-> data,
   opts |-> non_scene_opts(collection), waiter |-> waiter]

\* `await this.non_scene_opts()` resumes and the bulk call is issued
AwaitOpts(s) ==
  /\ calls[s].pc = "await_opts"
  /\ await_this_collection
  /\ LET c == calls[s]
         collection == wrapper.collection.value
     IN IF c.op = "create_many"
          THEN \* the promise createDocuments returns is not awaited: new_docs.map
               \* is not a function
               /\ host' = Append(host, Request("create", collection, create_data(c.arg), 0))
               /\ reached' = reached \cup {"createDocuments"}
               /\ settle(s, Rejected(TypeError("new_docs.map is not a function")))
        ELSE IF c.op = "update"
          THEN /\ host' = Append(host, Request("update", collection,
                                   [i \in 1..Len(c.arg) |-> as_document_blob(c.arg[i])], s))
               /\ reached' = reached \cup {"updateDocuments"}
               /\ calls' = [calls EXCEPT ![s].pc = "await_host"]
        ELSE   /\ host' = Append(host, Request("delete", collection, <<c.arg>>, s))
               /\ reached' = reached \cup {"deleteDocuments"}
               /\ calls' = [calls EXCEPT ![s].pc = "await_host"]
  /\ UNCHANGED <<game, issued, ctor, fetch, ent, blob>>

\* The host commits the oldest bulk request; an operation that returned the
\* request's promise completes with it
HostCommit ==
  /\ host # <<>>
  /\ game' = HostApply(Head(host))
  /\ host' = Tail(host)
  /\ IF Head(host).waiter \in Slots
       THEN settle(Head(host).waiter, Fulfilled(<<>>))
       ELSE UNCHANGED calls
  /\ UNCHANGED <<issued, ctor, wrapper, lookups, fetch, reached, ent, blob>>

Next ==
  \/ \E w \in Wrappers : Construct(w[1], w[2])
  \/ ActorFetchSettles
  \/ \E s \in Slots, reg_data \in CreateBatches : create_many(s, reg_data)
  \/ \E s \in Slots, items \in UpdBatches : update(s, items)
  \/ \E s \in Slots, id \in Ids : destroy(s, id)
  \/ \E s \in Slots, id \in Ids : get(s, id)
  \/ \E s \in Slots, query_obj \in Queries : query(s, query_obj)
  \/ \E s \in Slots : enumerate(s)
  \/ \E s \in Slots : AwaitCollection(s)
  \/ \E s \in Slots : AwaitOpts(s)
  \/ HostCommit

Spec == Init /\ [][Next]_vars

\* ------------------------------------------- the blob builder on its own
InitBlob == InitWrapper /\ ent \in LiveEntries /\ blob = NoBlob

\* as_document_blob(ent): the entry is reconciled in place, the record returned
BuildBlob ==
  /\ blob = NoBlob
  /\ blob' = [record |-> as_document_blob(ent), after |-> reconcile_name(ent)]
  /\ UNCHANGED <<game, host, issued, ctor, wrapper, lookups, fetch, reached, calls, ent>>

NextBlob == BuildBlob

SpecBlob == InitBlob /\ [][NextBlob]_vars

\* =========================================================== properties
\* What the host held when the wrapper was built (the constructor is the
\* first thing to run, so that is InitGame).
PackAtStart(comp_id) == comp_id \in InitGame.packs
DocAtStart(collection, id) == ById(InitGame.db[collection], id) # {}

\* Some id the descriptor names (or derives) is absent from the host
TargetIdMissing(type, cfg) ==
  IF cfg.src = "comp_actor"
    THEN ~PackAtStart(cfg.comp_id) \/ ~DocAtStart(PackCollection(cfg.comp_id), cfg.token_id)
  ELSE IF cfg.src = "game_actor" THEN ~DocAtStart(game_actors, cfg.actor_id)
  ELSE IF cfg.src = "scene_token"
    THEN cfg.scene_id \notin InitGame.scenes \/ cfg.token_id \notin DOMAIN InitGame.tokens
  ELSE IF cfg.src = "comp" THEN ~PackAtStart(cfg.comp_id)
  ELSE IF cfg.src = "comp_core" THEN ~PackAtStart(get_pack_id(type))
  ELSE IF cfg.src = "scene" THEN cfg.scene_id \notin InitGame.scenes
  ELSE FALSE

\* The descriptor's target exists (and a token's actor is live)
ValidTarget(type, cfg) ==
  /\ ~TargetIdMissing(type, cfg)
  /\ cfg.src = "scene_token" => DocAtStart(game_actors, InitGame.tokens[cfg.token_id])

NonSceneRooted == {"comp_actor", "game_actor", "comp", "comp_core", "game"}

Done(s, op) == calls[s].op = op /\ calls[s].pc = "done"

\* C1: on a wrapper of a non-scene-rooted descriptor whose target exists,
\* create_many completes successfully with one result per record, and a get
\* of a returned id returns a GetResult whose data is the record created.
C1_CreateThenGet ==
  (ctor = "ok" /\ wrapper.cfg.src \in NonSceneRooted
     /\ ValidTarget(wrapper.entry_type, wrapper.cfg)) =>
    \A s \in Slots : Done(s, "create_many") =>
      /\ calls[s].out.state = "fulfilled"
      /\ Len(calls[s].out.value) = Len(calls[s].arg)
      /\ \A g \in Slots, i \in 1..Len(calls[s].arg) :
           (Done(g, "get") /\ calls[g].arg = calls[s].out.value[i].id) =>
             /\ calls[g].out.state = "fulfilled"
             /\ calls[g].out.value.data = calls[s].arg[i]

\* C2: a wrapper whose descriptor names an id the host does not have has a
\* resolution rejected with NotFound, and none of its operations makes a
\* host call.
C2_MissingTargetNotFound ==
  (ctor = "ok" /\ TargetIdMissing(wrapper.entry_type, wrapper.cfg)) =>
    /\ wrapper.collection.state = "rejected"
    /\ wrapper.collection.reason.error = "NotFound"
    /\ reached = {}
    /\ host = <<>>

\* C3: lookup_collection is invoked exactly once per wrapper, at construction,
\* whatever operations are called and however they interleave, and the
\* promise stored at construction is the one every await reads.
C3_ResolvedOnce ==
  /\ lookups = 0
  /\ [][/\ lookups' = (IF ctor' = "ok" THEN 1 ELSE 0)
        /\ ctor = "ok" => wrapper'.collection = wrapper.collection]_vars

\* Two operations overlapped (slot 2 is taken only while slot 1 is in flight)
\* and both have settled
C3_Witness ==
  /\ ctor = "ok" /\ lookups = 1
  /\ calls[1].pc = "done" /\ calls[2].pc = "done"
  /\ calls[1].op = "update" /\ calls[2].op = "get"

\* C4 as stated: create_many on a wrapper of a Scene or SceneToken descriptor
\* (target present) returns the empty sequence and asks the host to create
\* nothing.
C4_TokenScopedCreateEmpty ==
  (ctor = "ok" /\ wrapper.cfg.src \in {"scene", "scene_token"}
     /\ ValidTarget(wrapper.entry_type, wrapper.cfg)) =>
    /\ \A s \in Slots : Done(s, "create_many") => calls[s].out = Fulfilled(<<>>)
    /\ "createDocuments" \notin reached

\* C4 amended: create_many on a wrapper of a bare Scene descriptor returns the
\* empty sequence at once, for any records, and no create ever reaches the
\* host.
C4_SceneCreateEmpty ==
  (ctor = "ok" /\ wrapper.cfg.src = "scene") =>
    /\ \A s \in Slots : calls[s].op = "create_many" =>
         calls[s].pc = "done" /\ calls[s].out = Fulfilled(<<>>)
    /\ "createDocuments" \notin reached
    /\ \A i \in 1..Len(host) : host[i].verb # "create"
    /\ game.created = 0

C4_Witness ==
  /\ ctor = "ok" /\ wrapper.cfg.src = "scene"
  /\ Done(1, "destroy") /\ Done(2, "create_many")
  /\ calls[2].arg = <<R2, R1>>

\* C5: when the top-level name equals the load-time name and the entry's own
\* name differs from it, the record carries the entry's name and the
\* top-level override is set to the entry's name.
C5_EntryNameWrittenBack ==
  (/\ blob # NoBlob
   /\ ent.Flags.top_level_data.name = ent.Flags.orig_doc_name
   /\ Truthy(ent.Name) /\ ent.Name # ent.Flags.orig_doc_name) =>
    /\ blob.record.name = ent.Name
    /\ blob.after.Flags.top_level_data.name = ent.Name

\* C6 as stated: whenever the top-level name differs from the load-time name,
\* the entry's name and the record's name both end up equal to it.
C6_TopLevelNameWins ==
  (blob # NoBlob /\ ent.Flags.top_level_data.name # ent.Flags.orig_doc_name) =>
    /\ blob.after.Name = ent.Flags.top_level_data.name
    /\ blob.record.name = ent.Flags.top_level_data.name

\* C6 amended: whenever the top-level name is non-empty and differs from the
\* load-time name, the entry's name and the record's name both end up equal
\* to it, whatever the entry's own name was.
C6_NonEmptyTopLevelNameWins ==
  (/\ blob # NoBlob
   /\ Truthy(ent.Flags.top_level_data.name)
   /\ ent.Flags.top_level_data.name # ent.Flags.orig_doc_name) =>
    /\ blob.after.Name = ent.Flags.top_level_data.name
    /\ blob.record.name = ent.Flags.top_level_data.name
    /\ blob.record.data.name = ent.Flags.top_level_data.name

\* Both names were changed since load, to different values
C6_Witness ==
  /\ blob # NoBlob
  /\ ent.Flags.orig_doc_name = "Y"
  /\ ent.Flags.top_level_data.name = "X"
  /\ ent.Name = "Z"
  /\ blob.record.name = "X"

\* C7: a Compendium or CorePack wrapper whose pack exists has that pack
\* collection as its resolved handle.
C7_PackHandle ==
  (ctor = "ok" /\ wrapper.cfg.src \in {"comp", "comp_core"}
     /\ ~TargetIdMissing(wrapper.entry_type, wrapper.cfg)) =>
    wrapper.collection = Fulfilled(PackCollection(wrapper.pack))

\* C8: a CompendiumActor wrapper whose pack exists has its resolution settled
\* only once the actor fetch has settled: fulfilled with the actor's embedded
\* items if the pack holds the actor, rejected with NotFound if not.
C8_CompendiumActorHandle ==
  (ctor = "ok" /\ wrapper.cfg.src = "comp_actor" /\ PackAtStart(wrapper.cfg.comp_id)) =>
    (wrapper.collection.state \in {"fulfilled", "rejected"} =>
      /\ fetch.state \in {"fulfilled", "rejected"}
      /\ IF DocAtStart(PackCollection(wrapper.cfg.comp_id), wrapper.cfg.token_id)
           THEN wrapper.collection =
                  Fulfilled(actor_items(wrapper.cfg.comp_id, wrapper.cfg.token_id))
           ELSE /\ wrapper.collection.state = "rejected"
                /\ wrapper.collection.reason.error = "NotFound")

\* C9: on a wrapper whose resolution did not fail, get does not fail: it
\* returns null, or a GetResult of the wrapper's kind with the requested id
\* whose document has that id and kind.
C9_GetNullOrMatching ==
  \A s \in Slots :
    (ctor = "ok" /\ wrapper.collection.state = "fulfilled" /\ Done(s, "get")) =>
      /\ calls[s].out.state = "fulfilled"
      /\ \/ calls[s].out.value = NullResult
         \/ /\ calls[s].out.value.type = wrapper.entry_type
            /\ calls[s].out.value.id = calls[s].arg
            /\ calls[s].out.value.entity._id = calls[s].arg
            /\ calls[s].out.value.entity.type = wrapper.entry_type

\* C10: once the wrapper's resolution has failed, every operation called on
\* the wrapper is rejected with that same failure before it makes any host
\* call, and the descriptor is not resolved again.
C10_FailureRejectsAll ==
  (ctor = "ok" /\ wrapper.collection.state = "rejected") =>
    /\ wrapper.collection.reason.error \in {"NotFound", "BrokenReference"}
    /\ lookups = 1
    /\ \A s \in Slots :
         /\ calls[s].pc \in {"idle", "await_collection", "done"}
         /\ calls[s].pc = "done" => calls[s].out = Rejected(wrapper.collection.reason)
    /\ reached = {}
    /\ host = <<>>

C10_Witness ==
  /\ ctor = "ok"
  /\ wrapper.collection = Rejected(BrokenReference("token actor"))
  /\ Done(1, "create_many") /\ Done(2, "enumerate")
  /\ calls[1].out = Rejected(BrokenReference("token actor"))
  /\ calls[2].out = Rejected(BrokenReference("token actor"))

\* C11: a SceneToken wrapper whose scene and token exist has its resolution
\* rejected with BrokenReference when the token's actor is gone, and otherwise
\* fulfilled with that actor's embedded item collection.
C11_TokenActorHandle ==
  (ctor = "ok" /\ wrapper.cfg.src = "scene_token"
     /\ ~TargetIdMissing(wrapper.entry_type, wrapper.cfg)) =>
    IF DocAtStart(game_actors, InitGame.tokens[wrapper.cfg.token_id])
      THEN wrapper.collection =
             Fulfilled(actor_items(Null, InitGame.tokens[wrapper.cfg.token_id]))
      ELSE /\ wrapper.collection.state = "rejected"
           /\ wrapper.collection.reason.error = "BrokenReference"

\* The orphan token's wrapper, with an operation that met the failure
C11_Witness ==
  /\ ctor = "ok"
  /\ wrapper.cfg = Cfg("scene_token", Null, Null, SceneId, OrphanToken)
  /\ wrapper.collection.reason.error = "BrokenReference"
  /\ Done(1, "get") /\ calls[1].out.reason.error = "BrokenReference"

\* The criteria built from a document's own field values
CriteriaOf(d) == {<<"name", d.data.name>>, <<"tag", d.data.tag>>}

\* The documents of the wrapper's kind in a collection
OfKind(collection) == {d \in game.db[collection] : d.type = wrapper.entry_type}

C13_PackQueryAsNonPack ==
  (/\ ctor = "ok" /\ wrapper.cfg.src \in {"comp", "comp_core"}
   /\ PackAtStart(wrapper.pack)
   /\ game.db[PackCollection(wrapper.pack)] = game.db[game_items]) =>
    \A s \in Slots :
      Done(s, "query") =>
        calls[s].out = Fulfilled(query_results(query_filter(game_items, calls[s].arg)))

\* C14: create_many on a wrapper that is not scene-bound and has a collection
\* for a handle returns one GetResult per input record, in input order, of the
\* wrapper's kind, carrying the id of the document the backend created.
C14_CreateReturnsCreated ==
  \A s \in Slots :
    (/\ Done(s, "create_many") /\ ctor = "ok" /\ wrapper.scene = Null
     /\ wrapper.collection.state = "fulfilled"
     /\ wrapper.collection.value # Undefined) =>
      /\ calls[s].out.state = "fulfilled"
      /\ Len(calls[s].out.value) = Len(calls[s].arg)
      /\ \A i \in 1..Len(calls[s].arg) :
           /\ calls[s].out.value[i].type = wrapper.entry_type
           /\ calls[s].out.value[i].data = calls[s].arg[i]
           /\ \E d \in game.db[wrapper.collection.value] :
                /\ d._id = calls[s].out.value[i].id
                /\ d.type = wrapper.entry_type
                /\ d.name = calls[s].arg[i].name

\* C15: on a wrapper without a pack, query(criteria) returns exactly the
\* documents of the collection whose kind is the wrapper's and whose raw fields
\* equal every criterion (none when nothing matches).
C15_QueryExactMatches ==
  [][\A s \in Slots :
       (/\ calls[s].op = "query" /\ calls[s].pc = "await_collection"
        /\ calls'[s].pc = "done"
        /\ wrapper.pack = Null /\ wrapper.collection.state = "fulfilled") =>
         calls'[s].out =
           Fulfilled({GetResult(d._id, wrapper.entry_type, d) :
                        d \in {x \in game.db[wrapper.collection.value] :
                                 /\ x.type = wrapper.entry_type
                                 /\ \A kv \in calls[s].arg : x.data[kv[1]] = kv[2]}})]_vars

\* A query that returned a created record and left another document out
C15_Witness ==
  \E s \in Slots :
    /\ Done(s, "query") /\ wrapper.pack = Null
    /\ calls[s].out.state = "fulfilled"
    /\ \E r \in calls[s].out.value : r.id = NewId(1)
    /\ Cardinality(game.db[wrapper.collection.value]) > Cardinality(calls[s].out.value)

\* The bulk request the claim expects of the update or destroy call in slot s
ExpectedWrite(s) ==
  LET c == calls[s]
      h == wrapper.collection.value
  IN [verb |-> IF c.op = "update" THEN "update" ELSE "delete",
      cls  |-> documentClass(h),
      data |-> IF c.op = "update"
                 THEN [i \in 1..Len(c.arg) |-> as_document_blob(c.arg[i])]
                 ELSE <<c.arg>>,
      opts |-> [parent |-> parent_of(h), pack |-> wrapper.pack],
      waiter |-> s]

\* C16: on a wrapper whose resolution succeeded, an update or destroy call goes
\* on from its handle to issue one bulk request: an update with one blob per
\* entry in entry order, or a delete of the list [id], under a context made of
\* the handle's parent (present exactly when the handle is embedded) and the
\* wrapper's pack id; it issues nothing else.
C16_OneBulkWrite ==
  [][\A s \in Slots :
       (calls[s].op \in {"update", "destroy"} /\ wrapper.collection.state = "fulfilled") =>
         /\ (calls[s].pc = "await_collection" /\ calls'[s] # calls[s]) =>
              calls'[s].pc = "await_opts" /\ host' = host
         /\ (calls[s].pc = "await_opts" /\ calls'[s] # calls[s]) =>
              calls'[s].pc = "await_host" /\ host' = Append(host, ExpectedWrite(s))
         /\ (calls[s].pc = "await_host" /\ calls'[s] # calls[s]) =>
              calls'[s].pc = "done" /\ host' = Tail(host)]_vars

\* C17: every step of a get, query or enumerate call, from its start to its
\* completion with a result, null or a failure, leaves every collection's
\* documents and the queue of bulk requests as they were.
C17_ReadsLeaveBackend ==
  [][\A s \in Slots :
       (calls'[s].op \in {"get", "query", "enumerate"} /\ calls'[s] # calls[s]) =>
         game' = game /\ host' = host]_vars

\* A get that found its document and a query that returned one, on the
\* untouched world
C17_Witness ==
  /\ Done(1, "get") /\ calls[1].out.state = "fulfilled" /\ calls[1].out.value # NullResult
  /\ Done(2, "query") /\ calls[2].out.state = "fulfilled" /\ calls[2].out.value # {}
  /\ game = InitGame /\ host = <<>>

PackSources == {"comp", "comp_core", "comp_actor"}

\* C18: on a constructed wrapper the pack id is set exactly for the comp,
\* comp_core and comp_actor descriptors, the scene exactly for the bare scene
\* descriptor, never both, and no step changes either after construction.
C18_SceneXorPack ==
  /\ [](ctor = "ok" =>
          /\ wrapper.pack # Null <=> wrapper.cfg.src \in PackSources
          /\ wrapper.scene # Null <=> wrapper.cfg.src = "scene"
          /\ ~(wrapper.pack # Null /\ wrapper.scene # Null))
  /\ [][ctor = "ok" =>
          wrapper'.pack = wrapper.pack /\ wrapper'.scene = wrapper.scene]_vars

\* A comp_actor wrapper holding its pack id and no scene, after an operation
C18_Witness ==
  /\ ctor = "ok" /\ wrapper.cfg.src = "comp_actor"
  /\ wrapper.pack = CustomPack /\ wrapper.scene = Null
  /\ \E s \in Slots : calls[s].pc = "done"

\* C19: a construction that failed produced no wrapper and started no
\* resolution, and that happens only to a bare scene descriptor; for every
\* other descriptor a missing target shows as a rejected resolution, which
\* every later operation meets.
C19_OnlySceneFailsAtConstruction ==
  /\ ctor = "threw" => wrapper = NoWrapper /\ lookups = 0
  /\ (ctor = "ok" /\ wrapper.cfg.src = "scene") =>
       ~TargetIdMissing(wrapper.entry_type, wrapper.cfg)
  /\ (ctor = "ok" /\ TargetIdMissing(wrapper.entry_type, wrapper.cfg)) =>
       /\ wrapper.collection.state = "rejected"
       /\ \A s \in Slots : calls[s].pc = "done" => calls[s].out.state = "rejected"

\* The asynchronous pack path was taken by the read in slot s
PackPath(s) ==
  LET m == IF calls[s].op = "get" THEN "getDocument" ELSE "getDocuments"
  IN IF wrapper.collection.value = Undefined
       THEN calls[s].out = Rejected(TypeError(m \o " of undefined"))
       ELSE m \in reached

\* The synchronous lookup or in-memory filter was taken by the read in slot s
SyncPath(s) ==
  LET m == IF calls[s].op = "get" THEN "get" ELSE "contents"
  IN IF wrapper.collection.value = Undefined
       THEN calls[s].out = Rejected(TypeError(m \o " of undefined"))
       ELSE m \in reached /\ calls[s].out.state = "fulfilled"

====
